---------------------------- MODULE Spec2Model ----------------------------
(***************************************************************************)
(* Container selector resolution of the bpfman agent                       *)
(* (bpfman-operator/controllers/bpfman-agent/containers.go):               *)
(*   getPodsForNode      lists the pods of a node that match a selector,   *)
(*   getContainerInfo    correlates a pod list with the container runtime  *)
(*                       through crictl and returns (pod, container, pid), *)
(*   noContainersOnNode  reads the "no containers on node" annotation.     *)
(* A crictl answer is modelled as the list its JSON holds; an entry is a   *)
(* record whose keys are the fields jsonparser can read from it, so that a *)
(* field jsonparser.GetString fails on is a key the record does not have.  *)
(***************************************************************************)
EXTENDS Naturals, Sequences, FiniteSets, TLC

\* ------------------------------------------------------------------ bounds
MaxSandboxes == 2
MaxContainers == 2

\* ---------------------------------------------------------------- universe
crictl == "/usr/local/bin/crictl"

Namespaces == {"ns1", "ns2"}
PodNames == {"worker-1", "worker-10"}
ContainerNameSet == {"main", "sidecar"}

\* The pods the cluster API can list: the selector's namespace is "ns1".
Pods == {[Name |-> n, Namespace |-> "ns1"] : n \in PodNames}

\* A pod list: pods of one namespace, each with "the unique name of the pod
\* generated by k8s", in any order.
PodLists ==
    {s \in UNION {[1..k -> Pods] : k \in 0..Cardinality(Pods)} :
        \A j \in DOMAIN s, k \in DOMAIN s : j # k => s[j] # s[k]}

\* The text a name can have before and after the text it is searched for.
Affixes == {"", "0"}

\* crictl's --name option "works like a grep on the names of pods".
Contains(s, sub) == \E pre \in Affixes, suf \in Affixes : pre \o sub \o suf = s

\* Identities the runtime assigns: the k-th sandbox of an answer, the k-th
\* container of a sandbox, and the pid of that container.
SandboxId(k) == "sb" \o ToString(k)
ContainerId(podId, k) == podId \o "-c" \o ToString(k)
ContainerPid(k) == 4242 + k

\* The k-th item of a `crictl pods --name q -o json` answer: its id and its
\* metadata.name may be unreadable; a readable name passed the name filter.
\* metadata.namespace is in the answer and never read by the agent.
SandboxItems(q, k) ==
    LET names == {n \in PodNames : Contains(n, q)}
    IN     {[id |-> SandboxId(k), name |-> n, namespace |-> ns] :
                n \in names, ns \in Namespaces}
      \cup {[id |-> SandboxId(k), namespace |-> "ns1"]}
      \cup {[name |-> q, namespace |-> "ns1"]}

RECURSIVE PodsAnswersOfLen(_, _)
PodsAnswersOfLen(q, len) ==
    IF len = 0 THEN {<<>>}
    ELSE {Append(s, x) : s \in PodsAnswersOfLen(q, len - 1), x \in SandboxItems(q, len)}

PodsAnswers(q) == UNION {PodsAnswersOfLen(q, len) : len \in 0..MaxSandboxes}

\* What `crictl inspect -o json <id>` gives for a container: the command
\* fails, or its JSON has no readable info.pid, or it has one.
InspectAnswers(k) ==
    {[err |-> TRUE], [err |-> FALSE], [err |-> FALSE, pid |-> ContainerPid(k)]}

\* The k-th item of a `crictl ps --pod podId -o json` answer; "inspect" is
\* what the runtime answers when that container is inspected.
ContainerItems(podId, k) ==
         {[id |-> ContainerId(podId, k), name |-> n, inspect |-> a] :
              n \in ContainerNameSet, a \in InspectAnswers(k)}
    \cup {[name |-> n, inspect |-> [err |-> TRUE]] : n \in ContainerNameSet}
    \cup {[id |-> ContainerId(podId, k), inspect |-> [err |-> TRUE]]}

RECURSIVE PsAnswersOfLen(_, _)
PsAnswersOfLen(podId, len) ==
    IF len = 0 THEN {<<>>}
    ELSE {Append(s, x) : s \in PsAnswersOfLen(podId, len - 1),
                         x \in ContainerItems(podId, len)}

PsAnswers(podId) == UNION {PsAnswersOfLen(podId, len) : len \in 0..MaxContainers}

\* containerNames *[]string: nil, or a slice.
ContainerNamesInputs ==
    {[isNil |-> TRUE, names |-> <<>>],
     [isNil |-> FALSE, names |-> <<>>],
     [isNil |-> FALSE, names |-> <<"sidecar">>],
     [isNil |-> FALSE, names |-> <<"main", "sidecar">>]}

\* ------------------------------------------------------------------- state
VARIABLES
    podList,        \* getContainerInfo: podList.Items
    containerNames, \* getContainerInfo: containerNames
    pc,             \* the statement the call is at
    i,              \* index of the pod of the outer loop, from 1
    podInfo,        \* answer of `crictl pods`
    podId,          \* id read by the sandbox scan
    containerData,  \* answer of `crictl ps`
    containerIndex, \* index of the container loop, from 0
    containers,     \* the records appended so far
    ret,            \* what the call returned
    cmd,            \* arguments of the exec.Command last run
    execCount,      \* history: how many list commands of each kind were run
    matched,        \* history: the sandbox item the scan selected
    listed,         \* history: the records the `crictl ps` answers stand for
    listedAll,      \* history: the same, every unreadable field ending a scan
    containerSelector, \* getPodsForNode: containerSelector
    nodeName,       \* getPodsForNode: nodeName
    listCalls,      \* the pod list queries sent to the cluster API
    podsRet,        \* what getPodsForNode returned
    bpfProgram,     \* noContainersOnNode: bpfProgram
    results,        \* what the calls of noContainersOnNode returned
    cancelled       \* whether the caller's ctx is cancelled

vars == <<podList, containerNames, pc, i, podInfo, podId, containerData,
          containerIndex, containers, ret, cmd, execCount, matched,
          listed, listedAll, containerSelector, nodeName, listCalls,
          podsRet, bpfProgram, results, cancelled>>

\* What getContainerInfo has no access to.
outside == <<containerSelector, nodeName, listCalls, podsRet, bpfProgram,
             results, cancelled>>

NoCmd == <<>>
NoItem == [namespace |-> ""]
NotReturned == [done |-> FALSE, isNil |-> TRUE, containers |-> <<>>, err |-> ""]


\* ------------------------------------------------- getContainerInfo, helpers

\* jsonparser.GetString(data, <list>, "[index]", ..., key) succeeds when the
\* list has an item at index (from 0) and the item has a string at key.
HasString(data, index, key) ==
    index < Len(data) /\ key \in DOMAIN data[index + 1]

\* The sandbox scan from podIndex on: the last id read and whether an item
\* named exactly name was found; "index" is that item's (history only).
RECURSIVE ScanFrom(_, _, _)
ScanFrom(data, name, podIndex) ==
    IF ~HasString(data, podIndex, "id")
    THEN [podFound |-> FALSE, podId |-> "", index |-> podIndex]
    ELSE IF ~HasString(data, podIndex, "name")
    THEN [podFound |-> FALSE, podId |-> data[podIndex + 1].id, index |-> podIndex]
    ELSE IF data[podIndex + 1].name = name
    THEN [podFound |-> TRUE, podId |-> data[podIndex + 1].id, index |-> podIndex]
    ELSE ScanFrom(data, name, podIndex + 1)

\* Mutant: trusts the runtime's name filter and takes the first item it reads.
ScanPods_first(data, name) ==
    IF HasString(data, 0, "id") /\ HasString(data, 0, "name")
    THEN [podFound |-> TRUE, podId |-> data[1].id, index |-> 0]
    ELSE [podFound |-> FALSE, podId |-> "", index |-> 0]

ScanPods(data, name) == ScanFrom(data, name, 0)

\* Mutant: an empty allow-list selects nothing.
Wanted_strict(names, containerName) ==
    /\ ~names.isNil
    /\ \E k \in DOMAIN names.names : names.names[k] = containerName

\* The allow-list test: nil and empty select every container.
Wanted(names, containerName) ==
    ~ ( /\ ~names.isNil
        /\ Len(names.names) > 0
        /\ ~ \E k \in DOMAIN names.names : names.names[k] = containerName )

\* Mutant: an error is returned together with the records appended so far.
ErrorReturn_partial(recs, err) ==
    [done |-> TRUE, isNil |-> FALSE, containers |-> recs, err |-> err]

\* return nil, err
ErrorReturn(recs, err) ==
    [done |-> TRUE, isNil |-> TRUE, containers |-> <<>>, err |-> err]

\* return &containers, nil
OkReturn(recs) ==
    [done |-> TRUE, isNil |-> FALSE, containers |-> recs, err |-> ""]

ExecError == "exit status 1"
NotFoundError(name) == "pod " \o name \o " not found in crictl pod list"

Count(kind) == [execCount EXCEPT ![kind] = @ + 1]

\* The record of a listed container whose inspect gave a pid.
Record(podName, item) ==
    [podName |-> podName, containerName |-> item.name, pid |-> item.inspect.pid]

HasPid(item) == ~item.inspect.err /\ "pid" \in DOMAIN item.inspect

\* The records a `crictl ps` answer stands for when the scan of it ends at
\* the first of the items `stops`: those of the wanted items before it whose
\* inspect gives a pid, in the answer's order.
RecordsUpTo(podName, data, names, stops) ==
    LET last == IF stops = {} THEN Len(data)
                ELSE (CHOOSE k \in stops : \A j \in stops : k <= j) - 1
        kept == SelectSeq([k \in 1..last |-> k],
                          LAMBDA k : Wanted(names, data[k].name) /\ HasPid(data[k]))
    IN  [j \in 1..Len(kept) |-> Record(podName, data[kept[j]])]

\* A scan ends at an item with no name, or a wanted one with no id.
RecordsOf(podName, data, names) ==
    RecordsUpTo(podName, data, names,
                {k \in DOMAIN data :
                    \/ "name" \notin DOMAIN data[k]
                    \/ Wanted(names, data[k].name) /\ "id" \notin DOMAIN data[k]})

\* A scan ends at an item with no name or no id.
RecordsOfAll(podName, data, names) ==
    RecordsUpTo(podName, data, names,
                {k \in DOMAIN data :
                    "name" \notin DOMAIN data[k] \/ "id" \notin DOMAIN data[k]})

\* ------------------------------------------------- getContainerInfo, actions
pod == podList[i]
item == containerData[containerIndex + 1]

\* Lines 75-76: the locals of the loop body are new in every iteration.
FreshLocals ==
    /\ podId' = "" /\ matched' = NoItem
    /\ containerData' = <<>> /\ containerIndex' = 0

\* Lines 79-84: `crictl pods --name <pod> -o json` fails.
ExecPodsFail ==
    /\ pc = "loop" /\ i <= Len(podList)
    /\ cmd' = <<crictl, "pods", "--name", pod.Name, "-o", "json">>
    /\ execCount' = Count("pods")
    /\ ret' = ErrorReturn(containers, ExecError)
    /\ pc' = "done"
    /\ FreshLocals
    /\ UNCHANGED outside
    /\ UNCHANGED <<podList, containerNames, i, podInfo, containers, listed,
                   listedAll>>

\* Lines 79-80: the command answers.
ExecPodsOk ==
    /\ pc = "loop" /\ i <= Len(podList)
    /\ cmd' = <<crictl, "pods", "--name", pod.Name, "-o", "json">>
    /\ execCount' = Count("pods")
    /\ \E answer \in PodsAnswers(pod.Name) : podInfo' = answer
    /\ pc' = "scan"
    /\ FreshLocals
    /\ UNCHANGED outside
    /\ UNCHANGED <<podList, containerNames, i, containers, ret, listed,
                   listedAll>>

\* Mutant: a pod the runtime does not know is left out of the result.
PodNotFound_skip ==
    /\ pc = "scan" /\ ~ScanPods(podInfo, pod.Name).podFound
    /\ i' = i + 1 /\ pc' = "loop" /\ podInfo' = <<>>
    /\ UNCHANGED outside
    /\ UNCHANGED <<podList, containerNames, podId, containerData, containerIndex,
                   containers, ret, cmd, execCount, matched, listed,
                   listedAll>>

\* Lines 92-120: the scan finds no item named exactly as the pod.
PodNotFound ==
    /\ pc = "scan" /\ ~ScanPods(podInfo, pod.Name).podFound
    /\ ret' = ErrorReturn(containers, NotFoundError(pod.Name))
    /\ pc' = "done"
    /\ UNCHANGED outside
    /\ UNCHANGED <<podList, containerNames, i, podInfo, podId, containerData, containerIndex,
                   containers, cmd, execCount, matched, listed, listedAll>>

\* Lines 92-122: the scan finds one; its id is kept, and the answer is not
\* read again.
PodFound ==
    LET scan == ScanPods(podInfo, pod.Name) IN
    /\ pc = "scan" /\ scan.podFound
    /\ podId' = scan.podId
    /\ matched' = podInfo[scan.index + 1]
    /\ pc' = "ps" /\ podInfo' = <<>>
    /\ UNCHANGED outside
    /\ UNCHANGED <<podList, containerNames, i, containerData, containerIndex,
                   containers, ret, cmd, execCount, listed, listedAll>>

\* Lines 125-130: `crictl ps --pod <podId> -o json` fails.
ExecPsFail ==
    /\ pc = "ps"
    /\ cmd' = <<crictl, "ps", "--pod", podId, "-o", "json">>
    /\ execCount' = Count("ps")
    /\ ret' = ErrorReturn(containers, ExecError)
    /\ pc' = "done"
    /\ UNCHANGED outside
    /\ UNCHANGED <<podList, containerNames, i, podInfo, podId, containerData,
                   containerIndex, containers, matched, listed, listedAll>>

\* Lines 125-126: the command answers.
ExecPsOk ==
    /\ pc = "ps"
    /\ cmd' = <<crictl, "ps", "--pod", podId, "-o", "json">>
    /\ execCount' = Count("ps")
    /\ \E answer \in PsAnswers(podId) :
          /\ containerData' = answer
          /\ listed' = listed \o RecordsOf(pod.Name, answer, containerNames)
          /\ listedAll' = listedAll \o RecordsOfAll(pod.Name, answer, containerNames)
    /\ containerIndex' = 0
    /\ pc' = "containers"
    /\ UNCHANGED outside
    /\ UNCHANGED <<podList, containerNames, i, podInfo, podId, containers, ret,
                   matched>>

\* Lines 138-141 and 150-153: the name, or the id of a wanted container,
\* cannot be read: the container loop ends and the next pod is taken.
ContainerEnd ==
    /\ pc = "containers"
    /\ \/ ~HasString(containerData, containerIndex, "name")
       \/ /\ HasString(containerData, containerIndex, "name")
          /\ Wanted(containerNames, item.name)
          /\ ~HasString(containerData, containerIndex, "id")
    /\ i' = i + 1 /\ pc' = "loop"
    /\ UNCHANGED outside
    /\ UNCHANGED <<podList, containerNames, podInfo, podId, containerData,
                   containerIndex, containers, ret, cmd, execCount, matched, listed, listedAll>>

\* Lines 143-147: the container is not in the allow-list.
ContainerSkip ==
    /\ pc = "containers"
    /\ HasString(containerData, containerIndex, "name")
    /\ ~Wanted(containerNames, item.name)
    /\ containerIndex' = containerIndex + 1
    /\ UNCHANGED outside
    /\ UNCHANGED <<podList, containerNames, pc, i, podInfo, podId, containerData,
                   containers, ret, cmd, execCount, matched, listed,
                   listedAll>>

Inspectable ==
    /\ pc = "containers"
    /\ HasString(containerData, containerIndex, "name")
    /\ Wanted(containerNames, item.name)
    /\ HasString(containerData, containerIndex, "id")

\* Mutant: a failed inspect ends the call with the error.
ContainerInspectFail_abort ==
    /\ Inspectable /\ ~HasPid(item)
    /\ cmd' = <<crictl, "inspect", "-o", "json", item.id>>
    /\ ret' = ErrorReturn(containers, ExecError)
    /\ pc' = "done"
    /\ UNCHANGED outside
    /\ UNCHANGED <<podList, containerNames, i, podInfo, podId, containerData,
                   containerIndex, containers, execCount, matched, listed,
                   listedAll>>

\* Lines 157-167: `crictl inspect -o json <id>` fails or its answer has no
\* info.pid: the container is passed over.
ContainerInspectFail ==
    /\ Inspectable /\ ~HasPid(item)
    /\ cmd' = <<crictl, "inspect", "-o", "json", item.id>>
    /\ containerIndex' = containerIndex + 1
    /\ UNCHANGED outside
    /\ UNCHANGED <<podList, containerNames, pc, i, podInfo, podId, containerData,
                   containers, ret, execCount, matched, listed, listedAll>>

\* Mutant: a new record is put in front of the others.
ContainerAppend_front ==
    /\ Inspectable /\ HasPid(item)
    /\ cmd' = <<crictl, "inspect", "-o", "json", item.id>>
    /\ containers' = <<Record(pod.Name, item)>> \o containers
    /\ containerIndex' = containerIndex + 1
    /\ UNCHANGED outside
    /\ UNCHANGED <<podList, containerNames, pc, i, podInfo, podId, containerData,
                   ret, execCount, matched, listed, listedAll>>

\* Lines 157-175: the inspect gives a pid and a record is appended.
ContainerAppend ==
    /\ Inspectable /\ HasPid(item)
    /\ cmd' = <<crictl, "inspect", "-o", "json", item.id>>
    /\ containers' = Append(containers, Record(pod.Name, item))
    /\ containerIndex' = containerIndex + 1
    /\ UNCHANGED outside
    /\ UNCHANGED <<podList, containerNames, pc, i, podInfo, podId, containerData,
                   ret, execCount, matched, listed, listedAll>>

\* Line 180: every pod was handled.
Return ==
    /\ pc = "loop" /\ i > Len(podList)
    /\ ret' = OkReturn(containers)
    /\ pc' = "done"
    /\ UNCHANGED outside
    /\ UNCHANGED <<podList, containerNames, i, podInfo, podId, containerData,
                   containerIndex, containers, cmd, execCount, matched, listed, listedAll>>

\* The locals of getContainerInfo at line 73.
Entered ==
    /\ pc = "loop" /\ i = 1
    /\ podInfo = <<>> /\ podId = ""
    /\ containerData = <<>> /\ containerIndex = 0
    /\ containers = <<>>
    /\ ret = NotReturned
    /\ cmd = NoCmd
    /\ execCount = [pods |-> 0, ps |-> 0]
    /\ matched = NoItem /\ listed = <<>> /\ listedAll = <<>>

NoSelector == [Namespace |-> "", Pods |-> [MatchLabels |-> <<>>, MatchExpressions |-> <<>>]]
NoPodsRet == [done |-> FALSE, isNil |-> TRUE, items |-> <<>>, err |-> ""]
NoProgram == [isNil |-> TRUE, Annotations |-> <<>>]

\* getContainerInfo is entered with a pod list and an allow-list.
Init ==
    /\ podList \in PodLists
    /\ containerNames \in ContainerNamesInputs
    /\ Entered
    /\ containerSelector = NoSelector /\ nodeName = ""
    /\ listCalls = <<>> /\ podsRet = NoPodsRet
    /\ bpfProgram = NoProgram /\ results = <<>>
    /\ cancelled = FALSE

Next ==
    \/ ExecPodsFail \/ ExecPodsOk \/ PodNotFound \/ PodFound
    \/ ExecPsFail \/ ExecPsOk
    \/ ContainerEnd \/ ContainerSkip \/ ContainerInspectFail \/ ContainerAppend
    \/ Return

Spec == Init /\ [][Next]_vars

\* ------------------------------------------------------------ getPodsForNode
MaxExpressions == 1

\* The k-th requirement of a selector has its own key.
ExprKey(k) == "k" \o ToString(k)

\* metav1.LabelSelector: MatchLabels (here at most the label "app") and
\* MatchExpressions.
LabelSets == {<<>>, <<[key |-> "app", value |-> "web"]>>,
              <<[key |-> "app", value |-> "not a label value"]>>}
Operators == {"In", "NotIn", "Exists", "DoesNotExist", "Near"}
ValueLists == {<<>>, <<"db">>, <<"db", "web">>}
ExpressionLists ==
    UNION {{s \in [1..len -> [key : {ExprKey(k) : k \in 1..len},
                               operator : Operators, values : ValueLists]] :
              \A k \in 1..len : s[k].key = ExprKey(k)} : len \in 0..MaxExpressions}
LabelSelectors == [MatchLabels : LabelSets, MatchExpressions : ExpressionLists]

\* labels.NewRequirement accepts the operator with that number of values.
ValidRequirement(r) ==
    \/ r.operator \in {"In", "NotIn"} /\ Len(r.values) > 0
    \/ r.operator \in {"Exists", "DoesNotExist"} /\ Len(r.values) = 0

ValidLabel(l) == l.value \in {"web", "db"}

RECURSIVE Join(_, _)
Join(strings, sep) ==
    IF Len(strings) = 0 THEN ""
    ELSE IF Len(strings) = 1 THEN strings[1]
    ELSE strings[1] \o sep \o Join(Tail(strings), sep)

\* labels.Requirement.String()
FormatRequirement(r) ==
    CASE r.operator = "In" -> r.key \o " in (" \o Join(r.values, ",") \o ")"
      [] r.operator = "NotIn" -> r.key \o " notin (" \o Join(r.values, ",") \o ")"
      [] r.operator = "Exists" -> r.key
      [] OTHER -> "!" \o r.key

\* metav1.FormatLabelSelector: "<error>" for a selector that does not
\* convert, "<none>" for one with no requirement, else the requirements,
\* sorted by key, separated by commas.
FormatLabelSelector(sel) ==
    IF \/ \E k \in DOMAIN sel.MatchLabels : ~ValidLabel(sel.MatchLabels[k])
       \/ \E k \in DOMAIN sel.MatchExpressions : ~ValidRequirement(sel.MatchExpressions[k])
    THEN "<error>"
    ELSE IF Len(sel.MatchLabels) + Len(sel.MatchExpressions) = 0
    THEN "<none>"
    ELSE Join([k \in DOMAIN sel.MatchLabels |->
                   sel.MatchLabels[k].key \o "=" \o sel.MatchLabels[k].value]
              \o [k \in DOMAIN sel.MatchExpressions |->
                   FormatRequirement(sel.MatchExpressions[k])], ",")

\* Mutant: the selector string is always sent as the label selector.
ListOptions_always(selectorString, node) ==
    [FieldSelector |-> "spec.nodeName=" \o node, LabelSelector |-> selectorString]

\* Lines 46-52: metav1.ListOptions; an unset LabelSelector is "".
ListOptions(selectorString, node) ==
    [FieldSelector |-> "spec.nodeName=" \o node,
     LabelSelector |-> IF selectorString # "<none>" THEN selectorString ELSE ""]

selectorString == FormatLabelSelector(containerSelector.Pods)

ListCall ==
    [Namespace |-> containerSelector.Namespace,
     listOptions |-> ListOptions(selectorString, nodeName)]

getVars == <<podList, containerNames, i, podInfo, podId, containerData,
             containerIndex, containers, ret, cmd, execCount, matched, listed, listedAll>>

\* Lines 40-44: the selector does not format.
GetPodsParseError ==
    /\ pc = "getPods" /\ selectorString = "<error>"
    /\ podsRet' = [done |-> TRUE, isNil |-> TRUE, items |-> <<>>,
                   err |-> "error parsing selector: " \o selectorString]
    /\ pc' = "gotPods"
    /\ UNCHANGED <<getVars, containerSelector, nodeName, listCalls, bpfProgram,
                   results, cancelled>>

\* Lines 46-57: the list query fails; it does when ctx is cancelled.
GetPodsListError ==
    /\ pc = "getPods" /\ selectorString # "<error>"
    /\ listCalls' = Append(listCalls, ListCall)
    /\ podsRet' = [done |-> TRUE, isNil |-> TRUE, items |-> <<>>,
                   err |-> "error getting pod list: "
                             \o (IF cancelled THEN "context canceled" ELSE "timeout")]
    /\ pc' = "gotPods"
    /\ UNCHANGED <<getVars, containerSelector, nodeName, bpfProgram, results,
                   cancelled>>

\* Lines 46-59: the list query answers with pods of the namespace.
GetPodsListOk ==
    /\ pc = "getPods" /\ selectorString # "<error>" /\ ~cancelled
    /\ listCalls' = Append(listCalls, ListCall)
    /\ \E items \in PodLists :
          podsRet' = [done |-> TRUE, isNil |-> FALSE, items |-> items, err |-> ""]
    /\ pc' = "gotPods"
    /\ UNCHANGED <<getVars, containerSelector, nodeName, bpfProgram, results,
                   cancelled>>

NodeNames == {"node-a", "node-b"}
SelectorNamespaces == {"ns1", ""}

InitPods ==
    /\ containerSelector \in [Namespace : SelectorNamespaces, Pods : LabelSelectors]
    /\ nodeName \in NodeNames
    /\ pc = "getPods"
    /\ listCalls = <<>> /\ podsRet = NoPodsRet
    /\ podList = <<>> /\ containerNames = [isNil |-> TRUE, names |-> <<>>]
    /\ i = 1 /\ podInfo = <<>> /\ podId = ""
    /\ containerData = <<>> /\ containerIndex = 0 /\ containers = <<>>
    /\ ret = NotReturned /\ cmd = NoCmd /\ execCount = [pods |-> 0, ps |-> 0]
    /\ matched = NoItem /\ listed = <<>> /\ listedAll = <<>>
    /\ bpfProgram = NoProgram /\ results = <<>>
    /\ cancelled = FALSE

NextPods == GetPodsParseError \/ GetPodsListError \/ GetPodsListOk

SpecPods == InitPods /\ [][NextPods]_vars

\* -------------------------------------------------------- noContainersOnNode
MaxCalls == 3

\* internal.UprobeNoContainersOnNode, the annotation's key; the function
\* depends on the key's identity only.
UprobeNoContainersOnNode == "bpfman.io.uprobeprogramcontroller/nocontainersonnode"

AnnotationKeys == {UprobeNoContainersOnNode, "bpfman.io/ownedByProgram"}
AnnotationValues == {"true", "True", "false", ""}

\* A *BpfProgram: nil, or a program with its annotations.
Programs ==
    {NoProgram} \cup
    {[isNil |-> FALSE, Annotations |-> a] :
        a \in UNION {[keys -> AnnotationValues] : keys \in SUBSET AnnotationKeys}}

\* Mutant: the annotation's value is compared without regard to case.
noContainersOnNode_anycase(program) ==
    /\ ~program.isNil
    /\ UprobeNoContainersOnNode \in DOMAIN program.Annotations
    /\ program.Annotations[UprobeNoContainersOnNode] \in {"true", "True"}

\* Lines 185-196.
noContainersOnNode(program) ==
    IF program.isNil THEN FALSE
    ELSE LET ok == UprobeNoContainersOnNode \in DOMAIN program.Annotations
         IN  IF ok /\ program.Annotations[UprobeNoContainersOnNode] = "true"
             THEN TRUE ELSE FALSE

\* A caller asks whether the annotation is set.
CallNoContainersOnNode ==
    /\ pc = "annotation" /\ Len(results) < MaxCalls
    /\ results' = Append(results, noContainersOnNode(bpfProgram))
    /\ UNCHANGED <<getVars, pc, containerSelector, nodeName, listCalls, podsRet,
                   bpfProgram, cancelled>>

InitAnnotation ==
    /\ bpfProgram \in Programs
    /\ results = <<>>
    /\ pc = "annotation"
    /\ containerSelector = NoSelector /\ nodeName = ""
    /\ listCalls = <<>> /\ podsRet = NoPodsRet
    /\ podList = <<>> /\ containerNames = [isNil |-> TRUE, names |-> <<>>]
    /\ i = 1 /\ podInfo = <<>> /\ podId = ""
    /\ containerData = <<>> /\ containerIndex = 0 /\ containers = <<>>
    /\ ret = NotReturned /\ cmd = NoCmd /\ execCount = [pods |-> 0, ps |-> 0]
    /\ matched = NoItem /\ listed = <<>> /\ listedAll = <<>>
    /\ cancelled = FALSE

NextAnnotation == CallNoContainersOnNode

SpecAnnotation == InitAnnotation /\ [][NextAnnotation]_vars

\* ------------------------------------------------------------- cancellation
\* The caller cancels its ctx while a call is running. getPodsForNode hands
\* ctx to the list query (line 54); getContainerInfo has no ctx parameter
\* and runs its commands with exec.Command (lines 69, 79, 125, 157).
Cancel ==
    /\ ~cancelled /\ pc \notin {"done", "gotPods"}
    /\ cancelled' = TRUE
    /\ UNCHANGED <<getVars, pc, containerSelector, nodeName, listCalls, podsRet,
                   bpfProgram, results>>

\* Either function is called, under a ctx that is not cancelled yet.
InitCancel == Init \/ InitPods

NextCancel == Next \/ NextPods \/ Cancel

SpecCancel == InitCancel /\ [][NextCancel]_vars

\* -------------------------------------------------------------------- claims
ExactAt(data, k, name) == "name" \in DOMAIN data[k] /\ data[k].name = name

\* C1: when the sandbox query of a pod answers and no item of the answer is
\* named exactly as the pod (an empty answer included), the call returns,
\* as its next step and with no further command, nil and the error that
\* names the pod; one `crictl pods` was run for each pod taken so far.
C1_PodVanished ==
    [][(pc = "scan" /\ ~ \E k \in DOMAIN podInfo : ExactAt(podInfo, k, pod.Name))
        => /\ ret' = [done |-> TRUE, isNil |-> TRUE, containers |-> <<>>,
                      err |-> "pod " \o pod.Name \o " not found in crictl pod list"]
           /\ pc' = "done"
           /\ execCount' = execCount /\ execCount.pods = i /\ cmd' = cmd]_vars

\* The second pod's answer holds only a sandbox whose name contains its name.
C1_Witness ==
    /\ ret.done /\ i = 2
    /\ ret.err = "pod worker-1 not found in crictl pod list"
    /\ Len(podInfo) = 1 /\ ExactAt(podInfo, 1, "worker-10")
    /\ execCount.pods = 2

\* C2: the id kept by the sandbox scan is the id of the first item of the
\* answer named exactly as the pod, and the container list query that
\* follows is run with that id; an item whose name only contains the pod's
\* name is not selected.
C2_ExactMatch ==
    [][/\ (pc = "scan" /\ pc' = "ps")
          => \E k \in DOMAIN podInfo :
               /\ ExactAt(podInfo, k, pod.Name)
               /\ \A j \in 1..(k - 1) : ~ExactAt(podInfo, j, pod.Name)
               /\ "id" \in DOMAIN podInfo[k] /\ podId' = podInfo[k].id
       /\ (pc = "ps" /\ pc' # "ps")
          => cmd' = <<"/usr/local/bin/crictl", "ps", "--pod", podId, "-o", "json">>]_vars

\* "worker-10" is listed before "worker-1" and the second sandbox is queried.
C2_Witness ==
    /\ pc = "containers" /\ pod.Name = "worker-1"
    /\ matched = [id |-> "sb2", name |-> "worker-1", namespace |-> "ns1"]
    /\ cmd = <<"/usr/local/bin/crictl", "ps", "--pod", "sb2", "-o", "json">>

InAllowList(name) ==
    \E k \in DOMAIN containerNames.names : containerNames.names[k] = name

\* With a non-empty allow-list every record has a container name of the
\* list; containers are passed over uninspected only under such a list.
C3_Records ==
    /\ Len(containerNames.names) > 0
          => /\ \A k \in DOMAIN containers : InAllowList(containers[k].containerName)
             /\ \A k \in DOMAIN ret.containers : InAllowList(ret.containers[k].containerName)
    /\ (pc = "containers" /\ containerIndex > 0 /\ cmd[2] = "ps")
          => /\ Len(containerNames.names) > 0
             /\ \A k \in 1..containerIndex : ~InAllowList(containerData[k].name)

\* A container is passed over without being inspected exactly when the
\* allow-list is non-empty and does not hold its name.
C3_Step ==
    (pc = "containers" /\ containerIndex' = containerIndex + 1)
       => ((cmd' = cmd) <=> (Len(containerNames.names) > 0 /\ ~InAllowList(item.name)))

\* C3: with a non-empty allow-list every record has a container name of the
\* list; with a nil or empty one no container is left out for its name: a
\* container is passed over without being inspected exactly when the
\* allow-list is non-empty and does not hold its name.
C3_AllowList == []C3_Records /\ [][C3_Step]_vars

\* The allow-list leaves out the only container, which has a pid: the call
\* returns an empty sequence and no error.
C3_Witness ==
    /\ ret.done /\ ret.err = "" /\ ~ret.isNil /\ ret.containers = <<>>
    /\ containerNames.names = <<"sidecar">>
    /\ Len(containerData) = 1 /\ "name" \in DOMAIN containerData[1]
    /\ containerData[1].name = "main" /\ "id" \in DOMAIN containerData[1]
    /\ HasPid(containerData[1])

C5_InspectNonFatal ==
    [][(/\ pc = "containers" /\ containerIndex < Len(containerData)
        /\ "name" \in DOMAIN item /\ "id" \in DOMAIN item
        /\ (containerNames.isNil \/ containerNames.names = <<>> \/ InAllowList(item.name))
        /\ (item.inspect.err \/ "pid" \notin DOMAIN item.inspect))
        => /\ ~ret'.done /\ pc' = "containers"
           /\ containerIndex' = containerIndex + 1
           /\ containers' = containers /\ i' = i
           /\ containerData' = containerData]_vars

\* The first container's inspect failed, the second one's record is there,
\* and so is a record of the next pod.
C5_Witness ==
    /\ ret.done /\ ret.err = "" /\ Len(podList) = 2
    /\ Len(containerData) = 2
    /\ "name" \in DOMAIN containerData[1] /\ "id" \in DOMAIN containerData[1]
    /\ containerData[1].inspect.err
    /\ Len(ret.containers) = 2
    /\ ret.containers[1].podName = "worker-10"
    /\ ret.containers[2] = [podName |-> "worker-1", containerName |-> "main",
                            pid |-> ContainerPid(2)]

\* C6: a call that returns an error returns nil, whatever was appended
\* before; a call that returns no error has run one `crictl pods` and one
\* `crictl ps` for every pod of the list.
C6_AllOrNothing ==
    ret.done =>
       /\ ret.err # "" => (ret.isNil /\ ret.containers = <<>>)
       /\ ret.err = "" => /\ ~ret.isNil /\ ret.containers = containers
                          /\ i = Len(podList) + 1
                          /\ execCount = [pods |-> Len(podList), ps |-> Len(podList)]

\* A record of the first pod was appended and the second pod's query failed.
C6_Witness ==
    /\ ret.done /\ ret.err # "" /\ ret.isNil
    /\ i = 2 /\ Len(containers) > 0

\* C7: once the caller's ctx is cancelled no crictl command is run, a list
\* query that is sent fails, and a call that returns returns an error.
C7_Cancellation ==
    [][cancelled
        => /\ execCount' = execCount
           /\ (cmd' = cmd \/ cmd' = NoCmd)
           /\ (listCalls' # listCalls => podsRet'.err # "")
           /\ (ret'.done /\ ~ret.done) => ret'.err # ""]_vars

\* C8: getPodsForNode sends at most one list query, with the selector's
\* namespace and the node's field selector; the query has a label selector
\* exactly when the selector's string is not "<none>", and then that string;
\* a selector whose string is "<error>" gives an error and no query.
C8_LabelConstraint ==
    LET str == FormatLabelSelector(containerSelector.Pods) IN
    /\ Len(listCalls) <= 1
    /\ \A k \in DOMAIN listCalls :
          /\ listCalls[k].Namespace = containerSelector.Namespace
          /\ listCalls[k].listOptions.FieldSelector = "spec.nodeName=" \o nodeName
          /\ (listCalls[k].listOptions.LabelSelector = "") <=> (str = "<none>")
          /\ str # "<none>" => listCalls[k].listOptions.LabelSelector = str
    /\ str = "<error>" => listCalls = <<>>
    /\ podsRet.done =>
          IF str = "<error>"
          THEN podsRet.isNil /\ podsRet.err = "error parsing selector: <error>"
          ELSE Len(listCalls) = 1

\* The selector has no requirement and the query has no label selector.
C8_Witness ==
    /\ podsRet.done /\ ~podsRet.isNil
    /\ containerSelector.Pods = [MatchLabels |-> <<>>, MatchExpressions |-> <<>>]
    /\ Len(listCalls) = 1 /\ listCalls[1].listOptions.LabelSelector = ""

\* Every result is true exactly when the program is not nil and has the
\* annotation with the value "true".
C9_Results ==
    \A k \in DOMAIN results :
       results[k] <=> /\ ~bpfProgram.isNil
                      /\ \E key \in DOMAIN bpfProgram.Annotations :
                            /\ key = "bpfman.io.uprobeprogramcontroller/nocontainersonnode"
                            /\ bpfProgram.Annotations[key] = "true"

\* C9: every call of noContainersOnNode returns true exactly when the
\* program is not nil and has the annotation with the value "true", and no
\* call changes the program.
C9_AnnotationRead == []C9_Results /\ [][bpfProgram' = bpfProgram]_vars

\* Two calls on a program whose annotation is "true".
C9_Witness ==
    /\ Len(results) >= 2 /\ results[1] /\ results[2]
    /\ ~bpfProgram.isNil

\* C10: every record is made from a sandbox of the pod it names: the
\* sandbox whose containers are listed has the pod's name and namespace.
C10_OwnSandbox ==
    [][containers' # containers
        => /\ matched.name = pod.Name
           /\ matched.namespace = pod.Namespace]_vars

=============================================================================
